---------------------------- MODULE Spec2Model ----------------------------
(***************************************************************************)
(* AgroCast SPI core (backend/app/services/spi.py and its two boundary     *)
(* clients) as a state machine of calls.                                   *)
(*                                                                         *)
(* Every operation of the core is a function of its arguments, so the      *)
(* state is the call that was made: which function (call), with which      *)
(* arguments (args), and what it returned or raised (ret).  An HTTP        *)
(* request is followed step by step: pc is the handler's position, locals  *)
(* its local variables and trace the steps it has run.  FAKE_DB is the     *)
(* field registry of api/v1/fields.py, uuid_issued the identifiers         *)
(* uuid.uuid4() has handed out.                                            *)
(*                                                                         *)
(* Numbers.  SPI scores are held in hundredths (-200 is -2.00), rainfall   *)
(* and rolling sums in whole millimetres.  A float NaN is the record       *)
(* [ok |-> FALSE, v |-> 0]; a defined float is [ok |-> TRUE, v |-> n].     *)
(* Category labels and advisory statements are Russian prose in the        *)
(* source; the model names each by an ASCII tag.                           *)
(***************************************************************************)
EXTENDS Integers, Sequences, FiniteSets, TLC

VARIABLES call, args, ret, pc, locals, trace, FAKE_DB, uuid_issued

vars == <<call, args, ret, pc, locals, trace, FAKE_DB, uuid_issued>>

\* No call made yet / no value returned yet.
NoCall == "none"
NoRet == [kind |-> "none"]

\* No request in flight, nothing stored: the state of the process before
\* the first HTTP request (fields.py line 39, _FAKE_DB = {}).
NoLocals ==
    [raised |-> NoRet, prcp_series |-> <<>>, prcp_forecast |-> <<>>, rolling |-> <<>>,
     spi_series |-> <<>>, spi_forecast |-> <<>>, latest_spi |-> 0, category |-> "",
     unique_scales |-> <<>>, k |-> 0, result |-> <<>>,
     spi_30 |-> [nan |-> TRUE, num |-> 0, den |-> 1]]
EmptyDb == <<>>
Quiescent ==
    /\ pc = "idle"
    /\ locals = NoLocals
    /\ trace = <<>>
    /\ FAKE_DB = EmptyDb
    /\ uuid_issued = {}

\* The variables a call of a core function leaves alone.
http_state == <<pc, locals, trace, FAKE_DB, uuid_issued>>

-----------------------------------------------------------------------------
(* Bounds of the model *)

\* SPI scalars handed to the classifier and the recommendation engines
\* range over -MaxSpi..MaxSpi hundredths.
MaxSpi == 250

\* Rolling-sum series handed directly to the SPI transform: a lead run of at
\* most MaxTail equal sums, a main run of at most MaxRun equal sums and a
\* tail run of at most MaxTail equal sums, sums in 0..MaxSum millimetres.
MaxRun == 31
MaxTail == 2
MaxSum == 2

\* Meteostat frames: short ones cover 58..MaxDays calendar days, with a
\* base reading of 0..MaxBase mm a day, at most one outage of 1..MaxGap days,
\* and are asked for scales of 1..MaxScale months.
MaxDays == 62
MaxBase == 2
MaxGap == 2
MaxScale == 2

\* SPI series handed to forecast_spi cover 29..MaxFcDays calendar days and
\* have at most one hole of 1..MaxHole days.
MaxFcDays == 32
MaxHole == 2

\* compute_multi_scale_spi_for_point is asked for lists of at most MaxScales
\* scales.
MaxScales == 4

-----------------------------------------------------------------------------
(* Classifier: spi.py categorize_spi, categorize_spi_forecast *)

\* Variant with the severe/moderate boundary value -1.5 put in the wrong band.
categorize_spi_open_boundary(spi) ==
    IF spi <= -200 THEN "extreme_drought"
    ELSE IF spi < -150 THEN "severe_drought"
    ELSE IF spi <= -100 THEN "moderate_drought"
    ELSE IF spi <= -50 THEN "mild_dry"
    ELSE IF spi < 50 THEN "near_normal"
    ELSE IF spi < 100 THEN "mild_wet"
    ELSE IF spi < 150 THEN "moderate_wet"
    ELSE "extreme_wet"

categorize_spi(spi) ==
    IF spi <= -200 THEN "extreme_drought"
    ELSE IF spi <= -150 THEN "severe_drought"
    ELSE IF spi <= -100 THEN "moderate_drought"
    ELSE IF spi <= -50 THEN "mild_dry"
    ELSE IF spi < 50 THEN "near_normal"
    ELSE IF spi < 100 THEN "mild_wet"
    ELSE IF spi < 150 THEN "moderate_wet"
    ELSE "extreme_wet"

categorize_spi_forecast(spi) == categorize_spi(spi)

-----------------------------------------------------------------------------
(* Recommendation engines: spi.py generate_recommendations,                *)
(* generate_forecast_recommendations.  A statement is tagged               *)
(* <<mode, band, position>>; the text itself is constant per tag.          *)

Stmts(mode, band, n) == [i \in 1..n |-> <<mode, band, i>>]

generate_recommendations(spi) ==
    IF spi <= -200 THEN Stmts("current", "extreme_drought", 3)
    ELSE IF spi <= -150 THEN Stmts("current", "severe_drought", 3)
    ELSE IF spi <= -100 THEN Stmts("current", "moderate_drought", 3)
    ELSE IF spi <= -50 THEN Stmts("current", "mild_dry", 2)
    ELSE IF spi < 50 THEN Stmts("current", "near_normal", 2)
    ELSE IF spi < 100 THEN Stmts("current", "mild_wet", 2)
    ELSE IF spi < 150 THEN Stmts("current", "moderate_wet", 2)
    ELSE Stmts("current", "extreme_wet", 3)

\* Variant whose near-normal band is closed at 0.5, unlike the classifier's.
generate_forecast_recommendations_closed(spi_forecast) ==
    IF spi_forecast <= -200 THEN Stmts("forecast", "extreme_drought", 2)
    ELSE IF spi_forecast <= -150 THEN Stmts("forecast", "severe_drought", 2)
    ELSE IF spi_forecast <= -100 THEN Stmts("forecast", "moderate_drought", 2)
    ELSE IF spi_forecast <= -50 THEN Stmts("forecast", "mild_dry", 2)
    ELSE IF spi_forecast <= 50 THEN Stmts("forecast", "near_normal", 2)
    ELSE IF spi_forecast < 100 THEN Stmts("forecast", "mild_wet", 2)
    ELSE IF spi_forecast < 150 THEN Stmts("forecast", "moderate_wet", 2)
    ELSE Stmts("forecast", "extreme_wet", 2)

generate_forecast_recommendations(spi_forecast) ==
    IF spi_forecast <= -200 THEN Stmts("forecast", "extreme_drought", 2)
    ELSE IF spi_forecast <= -150 THEN Stmts("forecast", "severe_drought", 2)
    ELSE IF spi_forecast <= -100 THEN Stmts("forecast", "moderate_drought", 2)
    ELSE IF spi_forecast <= -50 THEN Stmts("forecast", "mild_dry", 2)
    ELSE IF spi_forecast < 50 THEN Stmts("forecast", "near_normal", 2)
    ELSE IF spi_forecast < 100 THEN Stmts("forecast", "mild_wet", 2)
    ELSE IF spi_forecast < 150 THEN Stmts("forecast", "moderate_wet", 2)
    ELSE Stmts("forecast", "extreme_wet", 2)

-----------------------------------------------------------------------------
(* Series.  A pandas Series is a sequence of rows [date, ok, v], in index   *)
(* order; dates are day numbers.                                           *)

Row(d, x) == [date |-> d, ok |-> TRUE, v |-> x]
NaNRow(d) == [date |-> d, ok |-> FALSE, v |-> 0]

\* Series.dropna(): the defined rows, index kept.
dropna(series) == SelectSeq(series, LAMBDA r : r.ok)

\* Sum of the values of rows lo..hi (halving keeps the recursion shallow).
RECURSIVE SumRows(_, _, _)
SumRows(series, lo, hi) ==
    IF lo > hi THEN 0
    ELSE IF lo = hi THEN series[lo].v
    ELSE LET mid == (lo + hi) \div 2
         IN SumRows(series, lo, mid) + SumRows(series, mid + 1, hi)

RECURSIVE SumSquares(_, _, _)
SumSquares(series, lo, hi) ==
    IF lo > hi THEN 0
    ELSE IF lo = hi THEN series[lo].v * series[lo].v
    ELSE LET mid == (lo + hi) \div 2
         IN SumSquares(series, lo, mid) + SumSquares(series, mid + 1, hi)

\* Series.nunique(): number of distinct defined values.
nunique(series) == Cardinality({series[i].v : i \in {j \in DOMAIN series : series[j].ok}})

\* Integer square root: the r with r*r <= m < (r+1)*(r+1).
RECURSIVE ISqrtIn(_, _, _)
ISqrtIn(m, lo, hi) ==
    IF lo >= hi THEN lo
    ELSE LET mid == (lo + hi + 1) \div 2
         IN IF mid * mid <= m THEN ISqrtIn(m, mid, hi) ELSE ISqrtIn(m, lo, mid - 1)

ISqrt(m) == ISqrtIn(m, 0, IF m < 46340 THEN m ELSE 46340)

-----------------------------------------------------------------------------
(* SPI transform: spi.py _compute_spi_series_from_sums                     *)

\* The two sample-count thresholds (spi.py lines 317 and 323).
MinCleanSamples == 30
MinPositiveSamples == 30

\* norm.ppf of the clipped CDF lies in [norm.ppf(1e-6), norm.ppf(1 - 1e-6)],
\* that is within -4.75..4.75 (hundredths, spi.py line 351).
SpiClip == 475

\* len(rolling_clean) < 30, the variant that also rejects exactly 30.
TooFewClean_inclusive(rolling_clean) == Len(rolling_clean) <= MinCleanSamples

\* len(rolling_clean) < 30
TooFewClean(rolling_clean) == Len(rolling_clean) < MinCleanSamples

\* len(rolling_pos) < 30
TooFewPositive(rolling_pos) == Len(rolling_pos) < MinPositiveSamples

\* The variance check left out.
IsDegenerate_never(rolling_pos) == FALSE

\* rolling_pos.nunique() == 1
IsDegenerate(rolling_pos) == nunique(rolling_pos) = 1

\* mask that also admits zero sums.
PositiveMask_nonneg(row) == row.ok /\ row.v >= 0

\* mask = rolling_clean > 0 (a comparison with NaN is False)
PositiveMask(row) == row.ok /\ row.v > 0

\* gamma.fit(rolling_pos, floc=0).  scipy raises when a sample is not
\* positive, and its shape equation log(mean) - mean(log) = s has no root
\* when s = 0, which in exact arithmetic is the case of all samples equal.
\* Otherwise the fit returns parameters that are a function of the sample
\* alone; the model keeps the sample's moments n, sum, sum of squares, from
\* which shape = mean^2/var and scale = var/mean.
gamma_fit(rolling_pos) ==
    LET n == Len(rolling_pos)
        S == SumRows(rolling_pos, 1, n)
        Q == SumSquares(rolling_pos, 1, n)
    IN IF \/ n = 0
          \/ \E i \in 1..n : rolling_pos[i].v <= 0
          \/ \A i \in 1..n : rolling_pos[i].v = rolling_pos[1].v
       THEN [ok |-> FALSE]
       ELSE [ok |-> TRUE, n |-> n, sum |-> S, sumsq |-> Q]

\* norm.ppf(clip(gamma.cdf(x, shape, loc, scale), 1e-6, 1 - 1e-6)) in
\* hundredths.  The quantile map is increasing in x and is 0 near the fitted
\* mean; the model takes its first-order form (x - mean)/sd, with
\* mean = shape*scale and sd^2 = shape*scale^2 (n * sd is the root of
\* n*sumsq - sum^2), and applies the clip.
spi_of_sum(x, n, sum, n_sd) ==
    LET z == (100 * (n * x - sum)) \div n_sd
    IN IF z < 0 - SpiClip THEN 0 - SpiClip
       ELSE IF z > SpiClip THEN SpiClip
       ELSE z

\* spi_series = pd.Series(index=rolling_clean.index); spi_series[mask] = ...
\* (spi.py lines 341-353): the SPI of every masked entry, NaN elsewhere.
spi_transform(rolling_clean, n, sum, n_sd) ==
    [i \in 1..Len(rolling_clean) |->
        IF PositiveMask(rolling_clean[i])
        THEN Row(rolling_clean[i].date, spi_of_sum(rolling_clean[i].v, n, sum, n_sd))
        ELSE NaNRow(rolling_clean[i].date)]

ValueError(what) == [kind |-> "ValueError", error |-> what]

\* The function from the fit on (spi.py lines 335-362).
spi_from_fit(rolling_clean, fit) ==
    LET spi_series ==
            spi_transform(rolling_clean, fit.n, fit.sum,
                          ISqrt(fit.n * fit.sumsq - fit.sum * fit.sum))
        last_valid == dropna(spi_series)
    IN IF ~fit.ok THEN ValueError("fit_failure")
       ELSE IF \A i \in 1..Len(rolling_clean) : ~PositiveMask(rolling_clean[i])
            THEN ValueError("all_zero")
       ELSE IF last_valid = <<>> THEN ValueError("no_valid_spi")
       ELSE [kind |-> "ok",
             spi_series |-> spi_series,
             latest_spi |-> last_valid[Len(last_valid)].v]

\* The sample checks (spi.py lines 314-333), then the fit and the transform.
spi_from_clean(rolling_clean, rolling_pos) ==
    IF TooFewClean(rolling_clean) THEN ValueError("insufficient_data")
    ELSE IF TooFewPositive(rolling_pos) THEN ValueError("insufficient_positive")
    ELSE IF IsDegenerate(rolling_pos) THEN ValueError("degenerate")
    ELSE spi_from_fit(rolling_clean, gamma_fit(rolling_pos))

compute_spi_series_from_sums(rolling_sums) ==
    spi_from_clean(dropna(rolling_sums),
                   SelectSeq(rolling_sums, LAMBDA r : r.ok /\ r.v > 0))

-----------------------------------------------------------------------------
(* Historical precipitation client: meteostat_client.py                    *)
(* fetch_daily_precipitation.  The upstream answer is a record             *)
(* [kind, rows]: "raises" (Daily(...).fetch() raised), "empty" (empty      *)
(* frame), "no_prcp" (frame without the prcp column) or "frame" (rows with *)
(* a prcp reading each, NaN where the station reported nothing).           *)

MeteostatError(what) == [kind |-> "MeteostatError", error |-> what]

\* Series.clip(lower=0.0)
clip_lower(series) ==
    [i \in DOMAIN series |->
        IF series[i].ok /\ series[i].v < 0 THEN Row(series[i].date, 0) ELSE series[i]]

IsSortedByDate(series) ==
    \A i \in 1..(Len(series) - 1) : series[i].date <= series[i + 1].date

\* The position each row takes when the rows are put in date order, rows of
\* one date keeping their order.
DateRanks(series) ==
    [i \in DOMAIN series |->
        1 + Cardinality({j \in DOMAIN series :
                            \/ series[j].date < series[i].date
                            \/ series[j].date = series[i].date /\ j < i})]

Permute(series, ranks) ==
    [k \in DOMAIN series |-> series[CHOOSE i \in DOMAIN series : ranks[i] = k]]

\* Series.sort_index(): ascending by date, stable.
sort_index(series) ==
    IF IsSortedByDate(series) THEN series ELSE Permute(series, DateRanks(series))

fetch_daily_precipitation(meteostat) ==
    IF meteostat.kind = "raises" THEN MeteostatError("request_failed")
    ELSE IF meteostat.kind = "empty" \/ meteostat.rows = <<>>
         THEN MeteostatError("empty_frame")
    ELSE IF meteostat.kind = "no_prcp" THEN MeteostatError("no_prcp_column")
    ELSE LET series == sort_index(clip_lower(dropna(meteostat.rows)))
         IN IF series = <<>> THEN MeteostatError("empty_after_dropna")
            ELSE [kind |-> "ok", series |-> series]

-----------------------------------------------------------------------------
(* Rolling aggregation: Series.rolling(window=W).sum()                     *)

\* months are counted as 30 days (spi.py lines 388, 458, 527)
DaysPerMonth == 30

\* Variant with min_periods=1: a sum over however many rows there are so far.
rolling_sum_partial(series, window) ==
    [i \in DOMAIN series |->
        LET lo == IF i >= window THEN i - window + 1 ELSE 1
        IN IF \A j \in lo..i : series[j].ok
           THEN Row(series[i].date, SumRows(series, lo, i))
           ELSE NaNRow(series[i].date)]

\* Running totals of rows lo..hi, continuing from carry: for each row the
\* sum of the defined values so far (s) and the number of NaN rows so far (n).
RECURSIVE RunningTotals(_, _, _, _)
RunningTotals(series, lo, hi, carry) ==
    IF lo > hi THEN <<>>
    ELSE IF lo = hi
         THEN <<[s |-> carry.s + (IF series[lo].ok THEN series[lo].v ELSE 0),
                 n |-> carry.n + (IF series[lo].ok THEN 0 ELSE 1)]>>
    ELSE LET mid == (lo + hi) \div 2
             left == RunningTotals(series, lo, mid, carry)
         IN left \o RunningTotals(series, mid + 1, hi, left[Len(left)])

\* An integer window counts rows, not calendar days: entry i is the sum of
\* rows i-W+1..i (the running total at i less the one at i-W), undefined
\* while fewer than W rows precede it or when one of them is NaN.
rolling_sum(series, window) ==
    LET zero == [s |-> 0, n |-> 0]
        totals == RunningTotals(series, 1, Len(series), zero)
        Upto(i) == IF i = 0 THEN zero ELSE totals[i]
    IN [i \in DOMAIN series |->
          IF i >= window /\ Upto(i).n = Upto(i - window).n
          THEN Row(series[i].date, Upto(i).s - Upto(i - window).s)
          ELSE NaNRow(series[i].date)]

-----------------------------------------------------------------------------
(* spi.py compute_spi_for_point *)

compute_spi_for_point(scale_months, meteostat) ==
    LET fetched == fetch_daily_precipitation(meteostat)
        rolling_window_days == scale_months * DaysPerMonth
        rolling == rolling_sum(fetched.series, rolling_window_days)
        spi == compute_spi_series_from_sums(rolling)
    IN IF fetched.kind # "ok" THEN fetched
       ELSE IF spi.kind # "ok" THEN spi
       ELSE [kind |-> "ok",
             latest_spi |-> spi.latest_spi,
             category |-> categorize_spi(spi.latest_spi),
             spi_series |-> spi.spi_series]

-----------------------------------------------------------------------------
(* spi.py compute_multi_scale_spi_for_point *)

\* scale < 1 or scale > 24 (spi.py line 524)
MinScaleMonths == 1
MaxScaleMonths == 24

\* sorted(set(scales_months))
RECURSIVE SortedSeqOf(_)
SortedSeqOf(S) ==
    IF S = {} THEN <<>>
    ELSE LET least == CHOOSE x \in S : \A y \in S : x <= y
         IN <<least>> \o SortedSeqOf(S \ {least})

\* One pass of the loop body (spi.py lines 524-536): the entry of one scale,
\* or the error it raises.
scale_entry(scale, prcp_series) ==
    LET rolling == rolling_sum(prcp_series, scale * DaysPerMonth)
        spi == compute_spi_series_from_sums(rolling)
    IN IF scale < MinScaleMonths \/ scale > MaxScaleMonths
       THEN ValueError("scale_out_of_range")
       ELSE IF spi.kind # "ok" THEN spi
       ELSE [kind |-> "ok",
             entry |-> [spi |-> spi.latest_spi,
                        category |-> categorize_spi(spi.latest_spi)]]

\* Variant of the loop that leaves a failing scale out and goes on.
RECURSIVE multi_loop_skip_failed(_, _, _, _)
multi_loop_skip_failed(unique_scales, k, prcp_series, result) ==
    IF k > Len(unique_scales) THEN [kind |-> "ok", result |-> result]
    ELSE LET one == scale_entry(unique_scales[k], prcp_series)
         IN IF one.kind # "ok"
            THEN multi_loop_skip_failed(unique_scales, k + 1, prcp_series, result)
            ELSE multi_loop_skip_failed(unique_scales, k + 1, prcp_series,
                                        result @@ (unique_scales[k] :> one.entry))

\* for scale in unique_scales (spi.py lines 523-538), from position k on,
\* with the entries collected so far.
RECURSIVE multi_loop(_, _, _, _)
multi_loop(unique_scales, k, prcp_series, result) ==
    IF k > Len(unique_scales) THEN [kind |-> "ok", result |-> result]
    ELSE LET one == scale_entry(unique_scales[k], prcp_series)
         IN IF one.kind # "ok" THEN one
            ELSE multi_loop(unique_scales, k + 1, prcp_series,
                            result @@ (unique_scales[k] :> one.entry))

compute_multi_scale_spi_for_point(scales_months, meteostat) ==
    LET unique_scales == SortedSeqOf({scales_months[i] : i \in DOMAIN scales_months})
        fetched == fetch_daily_precipitation(meteostat)
    IN IF scales_months = <<>> THEN ValueError("empty_scales")
       ELSE IF fetched.kind # "ok" THEN fetched
       ELSE multi_loop(unique_scales, 1, fetched.series, <<>>)

-----------------------------------------------------------------------------
(* Forecast: spi.py forecast_spi.                                          *)
(* The SARIMAX library is the environment: sarimax.kind says whether       *)
(* construction, fit and forecast go through ("fits") or one of them       *)
(* raises ("fails"); when it fits, the h-th forecast step is               *)
(* level + h * drift.  Returned floats are exact fractions num/den.        *)

\* days: int = 30 (spi.py line 17) and tail(30) (spi.py line 37)
DefaultHorizon == 30
FallbackTail == 30

RECURSIVE Factorial(_)
Factorial(n) == IF n <= 1 THEN 1 ELSE n * Factorial(n - 1)

HasDuplicateDates(series) ==
    \E i, j \in DOMAIN series : i < j /\ series[i].date = series[j].date

\* Series.asfreq("D"): one row per calendar day from the first date to the
\* last, NaN on the days the series has no row for.  Reindexing raises on an
\* index with duplicate labels.
asfreq_D(series) ==
    IF HasDuplicateDates(series) THEN ValueError("duplicate_labels")
    ELSE IF series = <<>> THEN [kind |-> "ok", series |-> <<>>]
    ELSE LET dates == {series[i].date : i \in DOMAIN series}
             first == CHOOSE d \in dates : \A e \in dates : d <= e
             last == CHOOSE d \in dates : \A e \in dates : e <= d
             AtDate(d) == IF d \in dates
                          THEN series[CHOOSE i \in DOMAIN series : series[i].date = d]
                          ELSE NaNRow(d)
         IN [kind |-> "ok",
             series |-> [k \in 1..(last - first + 1) |-> AtDate(first + k - 1)]]

\* Longest distance between two neighbouring defined rows.
MaxSpan(series) ==
    LET valid == {i \in DOMAIN series : series[i].ok}
        spans == {q - p : <<p, q>> \in
                    {<<a, b>> \in valid \X valid :
                        a < b /\ \A c \in valid : ~(a < c /\ c < b)}}
    IN IF spans = {} THEN 1 ELSE CHOOSE m \in spans : \A o \in spans : o <= m

\* Every interpolated value is a multiple of 1/InterpDen(series).
InterpDen(series) == Factorial(MaxSpan(series))

\* Series.interpolate(): linear between the neighbouring defined rows; NaN
\* rows after the last defined row take its value, NaN rows before the
\* first defined row stay NaN.  Values come out multiplied by den.
interpolate(series, den) ==
    LET valid == {i \in DOMAIN series : series[i].ok}
        Prev(k) == CHOOSE p \in valid : p < k /\ \A c \in valid : c < k => c <= p
        Next(k) == CHOOSE q \in valid : q > k /\ \A c \in valid : c > k => q <= c
        Fill(k) ==
            IF series[k].ok THEN Row(series[k].date, series[k].v * den)
            ELSE IF ~\E p \in valid : p < k THEN NaNRow(series[k].date)
            ELSE IF ~\E q \in valid : q > k
                 THEN Row(series[k].date, series[Prev(k)].v * den)
            ELSE LET p == Prev(k)
                     q == Next(k)
                 IN Row(series[k].date,
                        series[p].v * den
                          + ((series[q].v - series[p].v) * den * (k - p)) \div (q - p))
    IN [k \in DOMAIN series |-> Fill(k)]

\* Series.tail(n)
tail(series, n) ==
    IF Len(series) <= n THEN series ELSE SubSeq(series, Len(series) - n + 1, Len(series))

\* float(Series.mean()) of values held as multiples of 1/den: NaN rows are
\* skipped; the mean of no value is NaN.
mean(series, den) ==
    LET defined == dropna(series)
    IN IF defined = <<>> THEN [nan |-> TRUE, num |-> 0, den |-> 1]
       ELSE [nan |-> FALSE,
             num |-> SumRows(defined, 1, Len(defined)),
             den |-> den * Len(defined)]

forecast_spi(spi_series, days, sarimax) ==
    LET regular == asfreq_D(spi_series)
        den == InterpDen(regular.series)
        filled == interpolate(regular.series, den)
        m == mean(tail(filled, FallbackTail), den)
    IN IF regular.kind # "ok" THEN regular
       ELSE IF sarimax.kind = "fits"
            THEN [kind |-> "ok", path |-> "model", nan |-> FALSE,
                  num |-> sarimax.level + days * sarimax.drift, den |-> 1]
       ELSE [kind |-> "ok", path |-> "fallback", nan |-> m.nan, num |-> m.num, den |-> m.den]

-----------------------------------------------------------------------------
(* Specification of the scalar functions: one SPI value is drawn, then any *)
(* of the four functions is applied to it.                                 *)

SpiValues == (0 - MaxSpi)..MaxSpi

InitScalar ==
    /\ call = NoCall
    /\ args \in [spi : SpiValues]
    /\ ret = NoRet
    /\ Quiescent

CallCategorize ==
    /\ call' = "categorize_spi"
    /\ ret' = [kind |-> "ok", category |-> categorize_spi(args.spi)]
    /\ UNCHANGED <<args, http_state>>

CallCategorizeForecast ==
    /\ call' = "categorize_spi_forecast"
    /\ ret' = [kind |-> "ok", category |-> categorize_spi_forecast(args.spi)]
    /\ UNCHANGED <<args, http_state>>

CallRecommendations ==
    /\ call' = "generate_recommendations"
    /\ ret' = [kind |-> "ok", recs |-> generate_recommendations(args.spi)]
    /\ UNCHANGED <<args, http_state>>

CallForecastRecommendations ==
    /\ call' = "generate_forecast_recommendations"
    /\ ret' = [kind |-> "ok", recs |-> generate_forecast_recommendations(args.spi)]
    /\ UNCHANGED <<args, http_state>>

NextScalar ==
    \/ CallCategorize
    \/ CallCategorizeForecast
    \/ CallRecommendations
    \/ CallForecastRecommendations

SpecScalar == InitScalar /\ [][NextScalar]_vars

-----------------------------------------------------------------------------
(* Claims about the classifier and the recommendation engines *)

\* The threshold table of the classifier, band by band.
BandNames ==
    {"extreme_drought", "severe_drought", "moderate_drought", "mild_dry",
     "near_normal", "mild_wet", "moderate_wet", "extreme_wet"}

InBand(v, band) ==
    CASE band = "extreme_drought" -> v <= -200
      [] band = "severe_drought" -> -200 < v /\ v <= -150
      [] band = "moderate_drought" -> -150 < v /\ v <= -100
      [] band = "mild_dry" -> -100 < v /\ v <= -50
      [] band = "near_normal" -> -50 < v /\ v < 50
      [] band = "mild_wet" -> 50 <= v /\ v < 100
      [] band = "moderate_wet" -> 100 <= v /\ v < 150
      [] band = "extreme_wet" -> v >= 150

\* C1: categorize_spi(x) and categorize_spi_forecast(x) both return the one
\* band of the threshold table that contains x; exactly one band contains x,
\* so the bands partition the range and each boundary value -2.0, -1.5,
\* -1.0, -0.5, 0.5, 1.0, 1.5 lies in its single specified band.
C1_ClassifierIsThresholdTable ==
    call \in {"categorize_spi", "categorize_spi_forecast"} =>
        /\ ret.category \in BandNames
        /\ {b \in BandNames : InBand(args.spi, b)} = {ret.category}

\* C1 witness: the boundary value -1.5 has been classified, as severe drought.
C1_Witness ==
    /\ call = "categorize_spi_forecast"
    /\ args.spi = -150
    /\ ret.category = "severe_drought"

\* C10: each engine returns 1 to 4 statements, and the list returned for x
\* is the list returned for every value y of the same classifier band.
C10_RecsDependOnBandOnly ==
    /\ call = "generate_recommendations" =>
          /\ Len(ret.recs) \in 1..4
          /\ \A y \in SpiValues :
                categorize_spi(y) = categorize_spi(args.spi)
                    => generate_recommendations(y) = ret.recs
    /\ call = "generate_forecast_recommendations" =>
          /\ Len(ret.recs) \in 1..4
          /\ \A y \in SpiValues :
                categorize_spi(y) = categorize_spi(args.spi)
                    => generate_forecast_recommendations(y) = ret.recs

\* C10 witness: the forecast engine has answered for the boundary value 0.5,
\* which the classifier puts in the mild-wet band.
C10_Witness ==
    /\ call = "generate_forecast_recommendations"
    /\ args.spi = 50
    /\ categorize_spi(args.spi) = "mild_wet"
    /\ Len(ret.recs) = 2

-----------------------------------------------------------------------------
(* Specification of the SPI transform: one rolling-sum series is drawn,    *)
(* then _compute_spi_series_from_sums is applied to it.                    *)

\* On consecutive dates: nan1 undefined entries, run0 sums of sum0, run1 sums
\* of sum1, nan2 undefined entries, run2 sums of sum2.
SumsSeries(nan1, run0, sum0, run1, sum1, nan2, run2, sum2) ==
    [i \in 1..(nan1 + run0 + run1 + nan2 + run2) |->
        IF i <= nan1 THEN NaNRow(i)
        ELSE IF i <= nan1 + run0 THEN Row(i, sum0)
        ELSE IF i <= nan1 + run0 + run1 THEN Row(i, sum1)
        ELSE IF i <= nan1 + run0 + run1 + nan2 THEN NaNRow(i)
        ELSE Row(i, sum2)]

InitSums ==
    /\ call = NoCall
    /\ \E nan1 \in 0..1, run0 \in 0..MaxTail, sum0 \in 0..MaxSum,
          run1 \in 0..MaxRun, sum1 \in 0..MaxSum,
          nan2 \in 0..1, run2 \in 0..MaxTail, sum2 \in 0..MaxSum :
          args = [rolling_sums |->
                    SumsSeries(nan1, run0, sum0, run1, sum1, nan2, run2, sum2)]
    /\ ret = NoRet
    /\ Quiescent

CallComputeSpiSeries ==
    /\ call = NoCall
    /\ call' = "_compute_spi_series_from_sums"
    /\ ret' = compute_spi_series_from_sums(args.rolling_sums)
    /\ UNCHANGED <<args, http_state>>

NextSums == CallComputeSpiSeries

SpecSums == InitSums /\ [][NextSums]_vars

-----------------------------------------------------------------------------
(* Specification of compute_spi_for_point: a Meteostat answer and a scale  *)
(* are drawn, then the function is applied.                                *)

\* history_years defaults to 10 and the query spans history_years * 365 days
\* (spi.py lines 375 and 382).
DefaultHistoryYears == 10
DaysPerYear == 365
HistoryDays == DefaultHistoryYears * DaysPerYear

\* The reading of calendar day i: base mm, plus bump mm every period-th day.
Reading(i, base, period, bump) == base + (IF i % period = 0 THEN bump ELSE 0)

\* A frame over days 1..n.  Days gap_at..gap_at+gap_len-1 are an outage:
\* their rows are missing ("absent") or hold NaN ("nan"); gap_at = 0 is no
\* outage.  With negative, day 3 reads -1; with shuffled, the first two rows
\* come in the wrong order.
Frame(n, base, period, bump, gap_at, gap_len, gap_kind, negative, shuffled) ==
    LET InGap(i) == gap_at > 0 /\ gap_at <= i /\ i < gap_at + gap_len
        RowOf(i) == IF InGap(i) THEN NaNRow(i)
                    ELSE IF negative /\ i = 3 THEN Row(i, -1)
                    ELSE Row(i, Reading(i, base, period, bump))
        all == [i \in 1..n |-> RowOf(i)]
        kept == IF gap_kind = "absent" THEN dropna(all) ELSE all
        rows == IF shuffled /\ Len(kept) >= 2
                THEN <<kept[2], kept[1]>> \o SubSeq(kept, 3, Len(kept))
                ELSE kept
    IN [kind |-> "frame", rows |-> rows]

ShortFrames ==
    {Frame(n, base, period, bump, gap_at, gap_len, gap_kind, negative, shuffled) :
        n \in (2 * DaysPerMonth - 2)..MaxDays, base \in 0..MaxBase,
        period \in {2, 7}, bump \in {0, 10},
        gap_at \in {0, 10, 2 * DaysPerMonth - 5}, gap_len \in 1..MaxGap,
        gap_kind \in {"absent", "nan"},
        negative \in BOOLEAN, shuffled \in BOOLEAN}

\* Gap-free frames over the default ten years.
LongFrames ==
    {Frame(HistoryDays, base, 2, bump, 0, 1, "absent", FALSE, FALSE) :
        base \in {0, 2}, bump \in {0, 10}}

FailedAnswers ==
    {[kind |-> k, rows |-> <<>>] : k \in {"raises", "empty", "no_prcp"}}
    \cup {[kind |-> "no_prcp", rows |-> <<Row(1, 1)>>],
          [kind |-> "frame", rows |-> <<NaNRow(1), NaNRow(2)>>]}

InitPoint ==
    /\ call = NoCall
    /\ \/ args \in [scale_months : 1..MaxScale, meteostat : ShortFrames \cup FailedAnswers]
       \/ args \in [scale_months : {1, 3}, meteostat : LongFrames]
    /\ ret = NoRet
    /\ Quiescent

CallComputeSpiForPoint ==
    /\ call = NoCall
    /\ call' = "compute_spi_for_point"
    /\ ret' = compute_spi_for_point(args.scale_months, args.meteostat)
    /\ UNCHANGED <<args, http_state>>

NextPoint == CallComputeSpiForPoint

SpecPoint == InitPoint /\ [][NextPoint]_vars

-----------------------------------------------------------------------------
(* Specification of forecast_spi: an SPI series and the behaviour of the   *)
(* SARIMAX library are drawn, then the function is applied.                *)

\* Observations on days 1..n, alternating between odd_v and even_v.  Days
\* hole_at..hole_at+hole_len-1 are a hole: no row ("absent") or a NaN row
\* ("nan"); hole_at = 0 is no hole.  With dup, the last row comes twice.
SpiSeries(n, odd_v, even_v, hole_at, hole_len, hole_kind, dup) ==
    LET InHole(i) == hole_at > 0 /\ hole_at <= i /\ i < hole_at + hole_len
        all == [i \in 1..n |->
                  IF InHole(i) THEN NaNRow(i)
                  ELSE Row(i, IF i % 2 = 0 THEN even_v ELSE odd_v)]
        kept == IF hole_kind = "absent" THEN dropna(all) ELSE all
    IN IF dup /\ kept # <<>> THEN Append(kept, kept[Len(kept)]) ELSE kept

SpiSeriesInputs ==
    {SpiSeries(n, odd_v, even_v, hole_at, hole_len, hole_kind, dup) :
        n \in (FallbackTail - 1)..MaxFcDays,
        odd_v \in {-150, 0, 120}, even_v \in {-150, 0, 120},
        hole_at \in {0, 1, 2, FallbackTail - 10, FallbackTail - 2, FallbackTail - 1},
        hole_len \in 1..MaxHole, hole_kind \in {"absent", "nan"},
        dup \in BOOLEAN}

SarimaxBehaviours ==
    {[kind |-> "fails", level |-> 0, drift |-> 0]}
    \cup [kind : {"fits"}, level : {-200, 40}, drift : {0, 1}]

InitForecast ==
    /\ call = NoCall
    /\ args \in [spi_series : SpiSeriesInputs, days : {1, DefaultHorizon},
                  sarimax : SarimaxBehaviours]
    /\ ret = NoRet
    /\ Quiescent

CallForecastSpi ==
    /\ call = NoCall
    /\ call' = "forecast_spi"
    /\ ret' = forecast_spi(args.spi_series, args.days, args.sarimax)
    /\ UNCHANGED <<args, http_state>>

NextForecast == CallForecastSpi

SpecForecast == InitForecast /\ [][NextForecast]_vars

-----------------------------------------------------------------------------
(* Specification of compute_multi_scale_spi_for_point: a Meteostat answer  *)
(* and a list of scales are drawn, then the function is applied.           *)

\* Gap-free frames with weekly 10 mm rain, just long enough for 30 windows
\* of 1, 3 and 6 months, and a six-month one with a constant 2 mm a day.
MultiFrames ==
    {Frame(k * DaysPerMonth + MinCleanSamples - 1, 0, 7, 10, 0, 1, "absent", FALSE, FALSE) :
        k \in {1, 3, 6}}
    \cup {Frame(6 * DaysPerMonth + MinCleanSamples - 1, 2, 7, 0, 0, 1, "absent", FALSE, FALSE)}

MultiFailedAnswers ==
    {[kind |-> "raises", rows |-> <<>>],
     [kind |-> "frame", rows |-> <<NaNRow(1), NaNRow(2)>>]}

ScaleLists ==
    UNION {[1..len -> {0, 1, 3, 6, 25}] : len \in 0..MaxScales}

InitMulti ==
    /\ call = NoCall
    /\ args \in [scales_months : ScaleLists, meteostat : MultiFrames \cup MultiFailedAnswers]
    /\ ret = NoRet
    /\ Quiescent

CallComputeMultiScale ==
    /\ call = NoCall
    /\ call' = "compute_multi_scale_spi_for_point"
    /\ ret' = compute_multi_scale_spi_for_point(args.scales_months, args.meteostat)
    /\ UNCHANGED <<args, http_state>>

NextMulti == CallComputeMultiScale

SpecMulti == InitMulti /\ [][NextMulti]_vars

-----------------------------------------------------------------------------
(* Claims about the SPI transform *)

TransformReturned == call = "_compute_spi_series_from_sums"

\* Positions of the defined, and of the strictly positive, input sums.
CleanIdx == {i \in DOMAIN args.rolling_sums : args.rolling_sums[i].ok}
PosIdx == {i \in CleanIdx : args.rolling_sums[i].v > 0}
PosValues == {args.rolling_sums[i].v : i \in PosIdx}

\* The dates at which the returned SPI series holds a defined value.
DefinedSpiDates ==
    {ret.spi_series[j].date : j \in {k \in DOMAIN ret.spi_series : ret.spi_series[k].ok}}

\* C3: in the returned SPI series an entry is defined if and only if its
\* rolling sum is present and strictly positive; sums <= 0 and undefined
\* sums never get a value.
C3_DefinedIffPositiveSum ==
    (TransformReturned /\ ret.kind = "ok") =>
        /\ DefinedSpiDates = {args.rolling_sums[i].date : i \in PosIdx}
        /\ \A j \in DOMAIN ret.spi_series :
              \E i \in CleanIdx : args.rolling_sums[i].date = ret.spi_series[j].date

\* C3 witness: a series with an undefined sum, a zero sum and positive sums
\* was transformed, and the zero sum's entry is in the result, undefined.
C3_Witness ==
    /\ TransformReturned
    /\ ret.kind = "ok"
    /\ CleanIdx # DOMAIN args.rolling_sums
    /\ \E i \in CleanIdx :
          /\ args.rolling_sums[i].v = 0
          /\ \E j \in DOMAIN ret.spi_series :
                /\ ret.spi_series[j].date = args.rolling_sums[i].date
                /\ ~ret.spi_series[j].ok

\* C4: exactly 29 defined sums raise the insufficient-data error; exactly 30
\* defined sums, all strictly positive and not all equal, raise no error and
\* yield a latest SPI value.
C4_InsufficientDataBoundary ==
    TransformReturned =>
        /\ Cardinality(CleanIdx) = 29 => ret = ValueError("insufficient_data")
        /\ (Cardinality(CleanIdx) = 30 /\ PosIdx = CleanIdx /\ Cardinality(PosValues) > 1)
              => /\ ret.kind = "ok"
                 /\ ret.latest_spi \in (0 - SpiClip)..SpiClip

\* C4 witness: a series of exactly 30 defined sums, all positive, not all
\* equal, was transformed.
C4_Witness ==
    /\ TransformReturned
    /\ Cardinality(CleanIdx) = 30
    /\ PosIdx = CleanIdx
    /\ Cardinality(PosValues) > 1
    /\ ret.kind = "ok"

\* C5 as stated: whenever the positive sums are non-empty and all identical,
\* the degenerate-distribution error is raised, however many there are.
C5_DegenerateWhateverTheCount ==
    (TransformReturned /\ Cardinality(PosValues) = 1)
        => ret = ValueError("degenerate")

\* C5 amended: identical positive sums raise the degenerate-distribution
\* error when there are at least 30 of them; with fewer than 30 the count
\* checks come first and raise insufficient-data or insufficient-positive.
C5_DegenerateFromThirtyPositives ==
    (TransformReturned /\ Cardinality(PosValues) = 1) =>
        /\ Cardinality(PosIdx) >= 30 => ret = ValueError("degenerate")
        /\ Cardinality(PosIdx) < 30 =>
              ret = IF Cardinality(CleanIdx) < 30
                    THEN ValueError("insufficient_data")
                    ELSE ValueError("insufficient_positive")

\* C5 witness: 30 or more identical positive sums were transformed and the
\* degenerate-distribution error came back.
C5_Witness ==
    /\ TransformReturned
    /\ Cardinality(PosValues) = 1
    /\ Cardinality(PosIdx) >= 30
    /\ ret = ValueError("degenerate")

-----------------------------------------------------------------------------
(* Claims about compute_spi_for_point *)

PointReturned == call = "compute_spi_for_point"

\* Calendar days for which the fetched precipitation series has a reading.
PresentDays ==
    {args.meteostat.rows[i].date :
        i \in {j \in DOMAIN args.meteostat.rows : args.meteostat.rows[j].ok}}

\* C2: gap propagation.  The returned SPI series is indexed by the dates at
\* which the rolling sum is defined; each such date d has all W calendar
\* days d-W+1..d present in the fetched precipitation series.
C2_WindowsSpanOnlyPresentDays ==
    (PointReturned /\ ret.kind = "ok") =>
        \A j \in DOMAIN ret.spi_series :
            \A day \in (ret.spi_series[j].date - args.scale_months * 30 + 1)
                         ..ret.spi_series[j].date :
                day \in PresentDays

\* The ten-year, gap-free series alternating 0 mm and 10 mm, at scale 1.
IsAlternatingScenario ==
    /\ args.scale_months = 1
    /\ Len(args.meteostat.rows) = 3650
    /\ \A i \in DOMAIN args.meteostat.rows :
          /\ args.meteostat.rows[i].date = i
          /\ args.meteostat.rows[i].ok
          /\ args.meteostat.rows[i].v = (IF i % 2 = 0 THEN 10 ELSE 0)

\* C9 as stated: on the alternating scenario the SPI computation succeeds,
\* the latest SPI falls in exactly one band and its recommendation list has
\* at least one statement.
C9_AlternatingScenarioSucceeds ==
    (PointReturned /\ IsAlternatingScenario) =>
        /\ ret.kind = "ok"
        /\ ret.category \in BandNames
        /\ Len(generate_recommendations(ret.latest_spi)) >= 1

\* C9 amended: on the alternating scenario every 30-day window holds fifteen
\* 10 mm days, so every defined rolling sum is 150 mm and the computation
\* raises the degenerate-distribution error.
C9_AlternatingScenarioIsDegenerate ==
    (PointReturned /\ IsAlternatingScenario) =>
        /\ ret = ValueError("degenerate")
        /\ \A i \in 30..3650 : SumRows(args.meteostat.rows, i - 29, i) = 150

\* C9 witness: the alternating scenario was computed and raised the
\* degenerate-distribution error.
C9_Witness ==
    /\ PointReturned
    /\ IsAlternatingScenario
    /\ ret = ValueError("degenerate")

-----------------------------------------------------------------------------
(* Claims about forecast_spi *)

ForecastReturned == call = "forecast_spi"

LastDefinedObservations == tail(dropna(args.spi_series), 30)

\* C7: when the seasonal model fails, the value returned is the arithmetic
\* mean of the last 30 defined observations of the input series.
C7_FallbackIsMeanOfLastDefined ==
    (ForecastReturned /\ args.sarimax.kind = "fails" /\ ret.kind = "ok"
        /\ LastDefinedObservations # <<>>) =>
        /\ ~ret.nan
        /\ ret.num * Len(LastDefinedObservations)
             = SumRows(LastDefinedObservations, 1, Len(LastDefinedObservations)) * ret.den

-----------------------------------------------------------------------------
(* Claims about compute_multi_scale_spi_for_point *)

MultiReturned == call = "compute_multi_scale_spi_for_point"

RequestedScales == {args.scales_months[i] : i \in DOMAIN args.scales_months}

\* What each requested scale gives when computed on its own.
AloneAtScale ==
    [scale \in RequestedScales |->
        IF scale < 1 \/ scale > 24 THEN ValueError("scale_out_of_range")
        ELSE compute_spi_for_point(scale, args.meteostat)]

\* C8: all or nothing, over the distinct requested scales.  If every one
\* succeeds on its own, the result has exactly one entry per distinct scale,
\* with that scale's SPI and category; if any one fails (insufficient data,
\* degenerate distribution, out-of-range scale), the call raises the error
\* of a failing scale and returns no mapping.  When the shared fetch itself
\* fails, the call raises the fetch error.
C8_MultiScaleAllOrNothing ==
    (MultiReturned /\ args.scales_months # <<>>) =>
        LET fetched == fetch_daily_precipitation(args.meteostat)
            alone == AloneAtScale
        IN IF fetched.kind # "ok" THEN ret = fetched
           ELSE IF \A scale \in RequestedScales : alone[scale].kind = "ok"
           THEN /\ ret.kind = "ok"
                /\ DOMAIN ret.result = RequestedScales
                /\ \A scale \in RequestedScales :
                      ret.result[scale] =
                          [spi |-> alone[scale].latest_spi,
                           category |-> alone[scale].category]
           ELSE /\ ret.kind = "ValueError"
                /\ \E scale \in RequestedScales :
                      alone[scale].kind # "ok" /\ ret = alone[scale]

\* C8 witness: scales [1,3,1,6] were requested on a long enough history and
\* the result has the keys 1, 3 and 6.
C8_Witness ==
    /\ MultiReturned
    /\ args.scales_months = <<1, 3, 1, 6>>
    /\ ret.kind = "ok"
    /\ DOMAIN ret.result = {1, 3, 6}


-----------------------------------------------------------------------------
(* Forecast precipitation client: open_meteo_client.py                     *)
(* fetch_daily_precipitation_forecast.  The upstream answer is a record:   *)
(*   transport    "ok" or "fails" (requests.get raised)                    *)
(*   status_code  the HTTP status                                          *)
(*   parses       whether the body is JSON                                 *)
(*   data         what the body parses to: "object" or another JSON type   *)
(*   daily        its 'daily' member: "missing", "null", "empty_object",   *)
(*                "array" (a non-empty one) or "object"                    *)
(*   time, precipitation_sum   these members of 'daily': "missing",        *)
(*                "number" or "array"                                      *)
(*   times        the entries of 'time': [isdate, day], a date string held *)
(*                as its day number, or a string that is no date           *)
(*   prcp         the entries of 'precipitation_sum': [null, v]            *)

ForecastError(what) == [kind |-> "ForecastError", error |-> what]
AttributeError(what) == [kind |-> "AttributeError", error |-> what]
TypeError(what) == [kind |-> "TypeError", error |-> what]

\* if days < 1 or days > 16 (open_meteo_client.py line 26)
MinForecastDays == 1
MaxForecastDays == 16

\* Lines 26-65.  resp.json() raises JSONDecodeError, a ValueError, on a body
\* that is no JSON; .get on a value that is no dict raises AttributeError;
\* `not daily` holds of a missing, null or empty member; len() of a number
\* raises TypeError; pd.to_datetime raises a ValueError on a string that is
\* no date.  None of these exceptions is caught here.
fetch_daily_precipitation_forecast(days, open_meteo) ==
    IF days < MinForecastDays \/ days > MaxForecastDays
    THEN ValueError("days_out_of_range")
    ELSE IF open_meteo.transport # "ok" THEN ForecastError("request_failed")
    ELSE IF open_meteo.status_code # 200 THEN ForecastError("bad_status")
    ELSE IF ~open_meteo.parses THEN ValueError("json_decode")
    ELSE IF open_meteo.data # "object" THEN AttributeError("data_get")
    ELSE IF open_meteo.daily \in {"missing", "null", "empty_object"}
         THEN ForecastError("no_daily")
    ELSE IF open_meteo.daily # "object" THEN AttributeError("daily_get")
    ELSE IF open_meteo.time = "missing" \/ open_meteo.precipitation_sum = "missing"
         THEN ForecastError("no_fields")
    ELSE IF open_meteo.time = "number" \/ open_meteo.precipitation_sum = "number"
         THEN TypeError("len")
    ELSE IF Len(open_meteo.times) # Len(open_meteo.prcp)
         THEN ForecastError("length_mismatch")
    ELSE IF \E i \in DOMAIN open_meteo.times : ~open_meteo.times[i].isdate
         THEN ValueError("to_datetime")
    ELSE [kind |-> "ok",
          series |->
            sort_index([i \in DOMAIN open_meteo.times |->
                          IF open_meteo.prcp[i].null
                          THEN NaNRow(open_meteo.times[i].day)
                          ELSE Row(open_meteo.times[i].day, open_meteo.prcp[i].v)])]

-----------------------------------------------------------------------------
(* Answers of the Open-Meteo endpoint                                      *)

\* Forecast rain is 0..MaxFcRain mm a day.
MaxFcRain == 2

Day(d) == [isdate |-> TRUE, day |-> d]
NoDate == [isdate |-> FALSE, day |-> 0]
Rain(v) == [null |-> FALSE, v |-> v]
NullRain == [null |-> TRUE, v |-> 0]

\* A 200 answer whose body is an object with a 'daily' object holding both
\* arrays.
Reply(times, prcp) ==
    [transport |-> "ok", status_code |-> 200, parses |-> TRUE, data |-> "object",
     daily |-> "object", time |-> "array", precipitation_sum |-> "array",
     times |-> times, prcp |-> prcp]

\* A well-formed answer: n days from first on, rain mm on each of them, null
\* on the day null_at (0: on none); with shuffled, the first two days come
\* in the wrong order.
OpenMeteoOk(first, n, rain, null_at, shuffled) ==
    LET Position(i) == IF shuffled /\ n >= 2 /\ i <= 2 THEN 3 - i ELSE i
    IN Reply([i \in 1..n |-> Day(first + Position(i) - 1)],
             [i \in 1..n |-> IF Position(i) = null_at THEN NullRain ELSE Rain(rain)])

\* Failed and malformed answers: transport failure, non-200 status, a body
\* that is no JSON, a body that is no object, 'daily' missing, null, empty
\* or no object, 'time' or 'precipitation_sum' missing or no array, arrays
\* of different lengths, a 'time' entry that is no date.
OpenMeteoFailed(first) ==
    LET good == Reply(<<Day(first), Day(first + 1)>>, <<Rain(1), Rain(0)>>)
    IN {[good EXCEPT !.transport = "fails", !.status_code = 0],
        [good EXCEPT !.status_code = 500],
        [good EXCEPT !.parses = FALSE],
        [good EXCEPT !.data = "null"],
        [good EXCEPT !.data = "array"],
        [good EXCEPT !.daily = "missing"],
        [good EXCEPT !.daily = "null"],
        [good EXCEPT !.daily = "empty_object"],
        [good EXCEPT !.daily = "array"],
        [good EXCEPT !.time = "missing"],
        [good EXCEPT !.precipitation_sum = "missing"],
        [good EXCEPT !.time = "number"],
        [good EXCEPT !.precipitation_sum = "number"],
        [good EXCEPT !.prcp = <<Rain(1)>>],
        [good EXCEPT !.times = <<Day(first), NoDate>>]}

\* What Open-Meteo may answer to a request for `days` days when its today is
\* the day `first`.
OpenMeteoAnswers(days, first) ==
    {OpenMeteoOk(first, days, rain, null_at, shuffled) :
        rain \in 0..MaxFcRain, null_at \in {0, 1}, shuffled \in BOOLEAN}
    \cup OpenMeteoFailed(first)

-----------------------------------------------------------------------------
(* Specification of the two boundary clients: an upstream answer is drawn  *)
(* for each, then either client is called.                                 *)

\* Meteostat frames of at most MaxClientDays days.
MaxClientDays == 3

ClientFrames ==
    {Frame(n, 1, 2, 0, gap_at, gap_len, gap_kind, negative, FALSE) :
        n \in 1..MaxClientDays, gap_at \in 0..1, gap_len \in {1, MaxClientDays},
        gap_kind \in {"absent", "nan"}, negative \in BOOLEAN}

\* The forecast lengths asked for: the supported 1..16 and one beyond each end.
DaysAsked == (MinForecastDays - 1)..(MaxForecastDays + 1)

InitClients ==
    /\ call = NoCall
    /\ \E days \in DaysAsked :
         \E open_meteo \in OpenMeteoAnswers(days, 1),
            meteostat \in ClientFrames \cup FailedAnswers :
              args = [days |-> days, open_meteo |-> open_meteo, meteostat |-> meteostat]
    /\ ret = NoRet
    /\ Quiescent

CallFetchForecast ==
    /\ call = NoCall
    /\ call' = "fetch_daily_precipitation_forecast"
    /\ ret' = fetch_daily_precipitation_forecast(args.days, args.open_meteo)
    /\ UNCHANGED <<args, http_state>>

CallFetchHistory ==
    /\ call = NoCall
    /\ call' = "fetch_daily_precipitation"
    /\ ret' = fetch_daily_precipitation(args.meteostat)
    /\ UNCHANGED <<args, http_state>>

NextClients ==
    \/ CallFetchForecast
    \/ CallFetchHistory

SpecClients == InitClients /\ [][NextClients]_vars

-----------------------------------------------------------------------------
(* Claims about the boundary clients *)

\* The Open-Meteo answer came through and has the documented content: an
\* object whose 'daily' member is an object with 'time', an array of dates,
\* and 'precipitation_sum', an array of the same length.
IsWellFormed(open_meteo) ==
    /\ open_meteo.transport = "ok"
    /\ open_meteo.status_code = 200
    /\ open_meteo.parses
    /\ open_meteo.data = "object"
    /\ open_meteo.daily = "object"
    /\ open_meteo.time = "array"
    /\ open_meteo.precipitation_sum = "array"
    /\ Len(open_meteo.times) = Len(open_meteo.prcp)
    /\ \A i \in DOMAIN open_meteo.times : open_meteo.times[i].isdate

\* The Meteostat answer has at least one day with a reading.
HasReadings(meteostat) ==
    /\ meteostat.kind = "frame"
    /\ \E i \in DOMAIN meteostat.rows : meteostat.rows[i].ok

\* C12: every upstream failure surfaces as the client's own provider error.
\* Asked for a supported number of days, fetch_daily_precipitation_forecast
\* raises ForecastError whenever the Open-Meteo answer is failed or
\* malformed (and returns a series otherwise); fetch_daily_precipitation
\* raises MeteostatError whenever the Meteostat call fails, returns nothing,
\* lacks the prcp column or has no reading left (and returns a series
\* otherwise).
C12_UpstreamFailureIsProviderError ==
    /\ (call = "fetch_daily_precipitation_forecast"
          /\ args.days \in MinForecastDays..MaxForecastDays) =>
            IF IsWellFormed(args.open_meteo) THEN ret.kind = "ok"
            ELSE ret.kind = "ForecastError"
    /\ call = "fetch_daily_precipitation" =>
            IF HasReadings(args.meteostat) THEN ret.kind = "ok"
            ELSE ret.kind = "MeteostatError"

-----------------------------------------------------------------------------
(* spi.py compute_spi_forecast_for_point.  Dates are day numbers; the      *)
(* history asked for ends on end_date.                                     *)

\* Series.iloc[:n]
head(series, n) == IF Len(series) <= n THEN series ELSE SubSeq(series, 1, n)

\* series[series.index.date <= end_date] and series[series.index.date > end_date]
upto_date(series, end_date) == SelectSeq(series, LAMBDA r : r.date <= end_date)

\* Variant that keeps end_date itself on the forecast side.
after_date_inclusive(series, end_date) == SelectSeq(series, LAMBDA r : r.date >= end_date)

after_date(series, end_date) == SelectSeq(series, LAMBDA r : r.date > end_date)

\* The row a series of distinct dates has for each of its dates.
ByDate(series) ==
    [d \in {series[i].date : i \in DOMAIN series} |->
        series[CHOOSE i \in DOMAIN series : series[i].date = d]]

\* a.combine_first(b) for series of distinct dates: the index is the sorted
\* union of the two; a date takes the value a has for it unless a has no row
\* for it or holds NaN there, and then what b has.
combine_first(a, b) ==
    LET in_a == ByDate(a)
        in_b == ByDate(b)
        dates == DOMAIN in_a \cup DOMAIN in_b
        lo == CHOOSE d \in dates : \A e \in dates : d <= e
        hi == CHOOSE d \in dates : \A e \in dates : e <= d
        Value(d) == IF d \in DOMAIN in_a /\ in_a[d].ok THEN in_a[d]
                    ELSE IF d \in DOMAIN in_b THEN in_b[d]
                    ELSE NaNRow(d)
        index == IF dates = {} THEN <<>>
                 ELSE SelectSeq([k \in 1..(hi - lo + 1) |-> lo + k - 1],
                                LAMBDA d : d \in dates)
    IN [k \in DOMAIN index |-> Value(index[k])]

\* Lines 445-465: the forecast days after end_date, the combined series, its
\* rolling sums, their historical part, and the series handed to
\* _compute_spi_series_from_sums.
forecast_rolling_sums(scale_months, end_date, forecast_days, prcp_hist, prcp_forecast) ==
    LET later == after_date(prcp_forecast, end_date)
        prcp_combined == sort_index(prcp_hist \o head(later, forecast_days))
        rolling_all == rolling_sum(prcp_combined, scale_months * DaysPerMonth)
        rolling_hist == upto_date(rolling_all, end_date)
    IN IF later = <<>> THEN ValueError("no_forecast_after_end_date")
       ELSE [kind |-> "ok",
             prcp_combined |-> prcp_combined,
             rolling_hist |-> rolling_hist,
             passed |-> combine_first(rolling_hist, rolling_all)]

\* Lines 465-479: the SPI of the series handed over, its latest value, and
\* the split at end_date.
split_spi(rolling, end_date, forecast_days) ==
    LET spi == compute_spi_series_from_sums(rolling.passed)
        spi_hist == dropna(upto_date(spi.spi_series, end_date))
        spi_forecast == head(dropna(after_date(spi.spi_series, end_date)), forecast_days)
    IN IF spi.kind # "ok" THEN spi
       ELSE IF spi_hist = <<>> THEN ValueError("no_historical_spi")
       ELSE [kind |-> "ok",
             latest_spi |-> spi.latest_spi,
             latest_category |-> categorize_spi(spi.latest_spi),
             spi_hist |-> spi_hist,
             spi_forecast |-> spi_forecast]

compute_spi_forecast_for_point(scale_months, end_date, forecast_days, meteostat, open_meteo) ==
    LET prcp_hist == fetch_daily_precipitation(meteostat)
        prcp_forecast == fetch_daily_precipitation_forecast(forecast_days, open_meteo)
        rolling == forecast_rolling_sums(scale_months, end_date, forecast_days,
                                         prcp_hist.series, prcp_forecast.series)
    IN IF forecast_days < MinForecastDays \/ forecast_days > MaxForecastDays
       THEN ValueError("forecast_days_out_of_range")
       ELSE IF prcp_hist.kind # "ok" THEN prcp_hist
       ELSE IF prcp_forecast.kind # "ok" THEN prcp_forecast
       ELSE IF rolling.kind # "ok" THEN rolling
       ELSE split_spi(rolling, end_date, forecast_days)

-----------------------------------------------------------------------------
(* Specification of compute_spi_forecast_for_point: a Meteostat answer for *)
(* the days 1..end_date and an Open-Meteo answer are drawn, then the       *)
(* function is called.                                                     *)

\* A history of the days 1..n with rain every seventh day over a base
\* reading, whole or with the day gap_at missing.
ForecastPointFrame(n, base, gap_at) ==
    Frame(n, base, 7, 10, gap_at, 1, "absent", FALSE, FALSE)

\* Open-Meteo's today relative to end_date: end_date itself (the default
\* end_date = today), two days later, or so far back that no forecast day
\* comes after end_date.
TodayOffsets == {0 - MaxForecastDays, 0, 2}

ForecastPointAnswers(days, first) ==
    {OpenMeteoOk(first, days, rain, null_at, FALSE) :
        rain \in 0..MaxFcRain, null_at \in {0, 1}}
    \cup {OpenMeteoOk(first, days, 1, 0, TRUE)}
    \cup {[OpenMeteoOk(first, days, 1, 0, FALSE) EXCEPT !.transport = "fails"],
          [OpenMeteoOk(first, days, 1, 0, FALSE) EXCEPT !.parses = FALSE],
          [OpenMeteoOk(first, days, 1, 0, FALSE) EXCEPT !.daily = "array"]}

ForecastDaysAsked == {MinForecastDays - 1, MinForecastDays, 2, MaxForecastDays,
                      MaxForecastDays + 1}

\* Histories end on end_date, 58..MaxDays; the base reading is 0 or 1 mm
\* and day 10 may be missing.
InitForecastPoint ==
    /\ call = NoCall
    /\ \E end_date \in (2 * DaysPerMonth - 2)..MaxDays, base \in {0, 1}, gap_at \in {0, 10},
          days \in ForecastDaysAsked, offset \in TodayOffsets, scale \in 1..MaxScale :
         \E meteostat \in {ForecastPointFrame(end_date, base, gap_at),
                            [kind |-> "raises", rows |-> <<>>]},
            open_meteo \in ForecastPointAnswers(days, end_date + offset) :
              args = [scale_months |-> scale,
                      end_date |-> end_date,
                      forecast_days |-> days,
                      meteostat |-> meteostat,
                      open_meteo |-> open_meteo]
    /\ ret = NoRet
    /\ Quiescent

CallComputeSpiForecastForPoint ==
    /\ call = NoCall
    /\ call' = "compute_spi_forecast_for_point"
    /\ ret' = compute_spi_forecast_for_point(args.scale_months, args.end_date,
                                             args.forecast_days, args.meteostat,
                                             args.open_meteo)
    /\ UNCHANGED <<args, http_state>>

NextForecastPoint == CallComputeSpiForecastForPoint

SpecForecastPoint == InitForecastPoint /\ [][NextForecastPoint]_vars

-----------------------------------------------------------------------------
(* Claims about compute_spi_forecast_for_point *)

ForecastPointReturned ==
    /\ call = "compute_spi_forecast_for_point"
    /\ ret.kind = "ok"

\* The two fetched series and what the function derives from them before
\* the SPI transform, recomputed from the arguments of the call.
FetchedHistory == fetch_daily_precipitation(args.meteostat)
FetchedForecast == fetch_daily_precipitation_forecast(args.forecast_days, args.open_meteo)
DerivedSums ==
    forecast_rolling_sums(args.scale_months, args.end_date, args.forecast_days,
                          FetchedHistory.series, FetchedForecast.series)

\* The sample gamma.fit receives: the strictly positive entries of the
\* series handed to _compute_spi_series_from_sums (spi.py lines 315, 321, 337).
FitSample == SelectSeq(DerivedSums.passed, PositiveMask)
HistoricalFitSample == SelectSeq(DerivedSums.rolling_hist, PositiveMask)

\* C13: the gamma parameters are estimated from historical windows only.
\* Whenever compute_spi_forecast_for_point returns, no rolling sum dated
\* after end_date is in the sample passed to the gamma fit, and the fit is
\* the one the historical windows alone give.
C13_FitUsesHistoricalWindowsOnly ==
    ForecastPointReturned =>
        /\ \A i \in DOMAIN FitSample : FitSample[i].date <= args.end_date
        /\ gamma_fit(FitSample) = gamma_fit(HistoricalFitSample)

\* C14: latest_spi is the last historical SPI value.  Whenever
\* compute_spi_forecast_for_point returns, latest_spi is the value of the
\* last entry of the returned historical series and latest_category is the
\* category of that value.
C14_LatestIsLastHistorical ==
    ForecastPointReturned =>
        LET last == ret.spi_hist[Len(ret.spi_hist)]
        IN /\ ret.latest_spi = last.v
           /\ ret.latest_category = categorize_spi(last.v)

\* C17: the two returned series split the timeline at end_date.  Whenever
\* the call returns, every historical date is <= end_date, every forecast
\* date is > end_date, no date occurs twice in the combined precipitation
\* series, both series hold defined values only, the forecast series has at
\* most forecast_days entries and the historical series is not empty.  With
\* forecast_days outside 1..16 the call raises the range error; when both
\* fetches deliver and no forecast day lies after end_date it raises the
\* no-forecast error.
C17_SeriesSplitAtEndDate ==
    call = "compute_spi_forecast_for_point" =>
        /\ ret.kind = "ok" =>
              /\ \A i \in DOMAIN ret.spi_hist :
                    ret.spi_hist[i].ok /\ ret.spi_hist[i].date <= args.end_date
              /\ \A i \in DOMAIN ret.spi_forecast :
                    ret.spi_forecast[i].ok /\ ret.spi_forecast[i].date > args.end_date
              /\ ~HasDuplicateDates(DerivedSums.prcp_combined)
              /\ Len(ret.spi_forecast) <= args.forecast_days
              /\ ret.spi_hist # <<>>
        /\ args.forecast_days \notin MinForecastDays..MaxForecastDays =>
              ret = ValueError("forecast_days_out_of_range")
        /\ (/\ args.forecast_days \in MinForecastDays..MaxForecastDays
            /\ FetchedHistory.kind = "ok"
            /\ FetchedForecast.kind = "ok"
            /\ \A i \in DOMAIN FetchedForecast.series :
                  FetchedForecast.series[i].date <= args.end_date) =>
              ret = ValueError("no_forecast_after_end_date")

\* C17 witness: a call returned both a historical series and a forecast
\* series of several days, from a forecast that began on end_date itself.
C17_Witness ==
    /\ ForecastPointReturned
    /\ Len(ret.spi_forecast) >= 2
    /\ \E i \in DOMAIN FetchedForecast.series :
          FetchedForecast.series[i].date = args.end_date

-----------------------------------------------------------------------------
(* HTTP handlers: api/v1/spi.py.  A request is followed step by step.      *)
(* call is the endpoint, args the query parameters together with what the  *)
(* providers and the SARIMAX library will answer, pc the next step, locals *)
(* the values computed so far, trace the steps run with their outcome,     *)
(* and ret the response.                                                   *)

\* One entry of the trace.
Step(name, outcome) == [step |-> name, outcome |-> outcome]

\* HTTPException(status_code=..., detail=...): the detail is a fixed label
\* followed by the text of the exception ("" when none is included).
HTTPException(status_code, label, text) ==
    [status |-> status_code, detail |-> [label |-> label, text |-> text],
     body |-> NoRet, escaped |-> NoRet]

\* A response_model instance returned by the handler.
Response(body) ==
    [status |-> 200, detail |-> [label |-> "", text |-> ""],
     body |-> body, escaped |-> NoRet]

\* An exception raised outside the try block leaves the handler; no
\* response is made by the handler itself.
Escaped(exception) ==
    [status |-> 0, detail |-> [label |-> "", text |-> ""],
     body |-> NoRet, escaped |-> exception]

\* Variant of the except clauses whose last one puts str(e) in the detail.
http_exception_leaky(endpoint, e) ==
    IF e.kind = "MeteostatError" THEN HTTPException(502, "meteostat", e.error)
    ELSE IF e.kind = "ForecastError" /\ endpoint = "forecast_by_coords"
         THEN HTTPException(502, "open_meteo", e.error)
    ELSE IF e.kind = "ValueError" THEN HTTPException(400, "", e.error)
    ELSE HTTPException(500, "internal_server_error", e.error)

\* The except clauses of the four handlers (lines 123-128, 187-194,
\* 245-250, 296-301); only /forecast-by-coords has one for ForecastError.
http_exception(endpoint, e) ==
    IF e.kind = "MeteostatError" THEN HTTPException(502, "meteostat", e.error)
    ELSE IF e.kind = "ForecastError" /\ endpoint = "forecast_by_coords"
         THEN HTTPException(502, "open_meteo", e.error)
    ELSE IF e.kind = "ValueError" THEN HTTPException(400, "", e.error)
    ELSE HTTPException(500, "internal_server_error", "")

\* The float the threshold chains of the classifier and the recommendation
\* engines see, for an exact fraction num/den: comparing the fraction with
\* whole hundredths (<= below zero, < above) gives what comparing its
\* truncation toward zero gives.  A NaN fails every comparison and ends in
\* the last branch, as any value from LastBandFrom on does.
LastBandFrom == 150
as_hundredths(x) ==
    IF x.nan THEN LastBandFrom
    ELSE IF x.num >= 0 THEN x.num \div x.den
    ELSE 0 - ((0 - x.num) \div x.den)

\* Variant that takes the horizon from the request.
forecast_horizon_requested(forecast_days) == forecast_days

\* forecast_spi(spi_series) at lines 142 and 304: no days argument, so the
\* default applies whatever forecast_days the request carries.
forecast_horizon(forecast_days) == DefaultHorizon

\* SpiSarimaForecast / sarima_* fields (lines 142-150, 304-306, 317-319).
sarima_block(spi_30) ==
    [spi_30 |-> spi_30,
     category |-> categorize_spi_forecast(as_hundredths(spi_30)),
     recommendations |-> generate_forecast_recommendations(as_hundredths(spi_30))]

\* Lines 197-210: one point per entry of the forecast series.
forecast_points(spi_forecast) ==
    [i \in DOMAIN spi_forecast |->
        [date |-> spi_forecast[i].date,
         spi |-> spi_forecast[i].v,
         category |-> categorize_spi(spi_forecast[i].v),
         recommendations |-> generate_recommendations(spi_forecast[i].v)]]

\* Lines 252-259: the items in ascending order of scale.
multi_items(multi) ==
    LET order == SortedSeqOf(DOMAIN multi)
    IN [i \in DOMAIN order |->
          [scale_months |-> order[i],
           spi |-> multi[order[i]].spi,
           category |-> multi[order[i]].category]]

\* The response each handler builds from its locals.
response_body(endpoint, request, l) ==
    CASE endpoint = "by_coords" ->
            [spi |-> l.latest_spi, category |-> l.category,
             history |-> l.spi_series,
             recommendations |-> generate_recommendations(l.latest_spi),
             forecast |-> sarima_block(l.spi_30)]
      [] endpoint = "forecast_by_coords" ->
            [forecast_days |-> request.forecast_days,
             latest_spi |-> l.latest_spi, latest_category |-> l.category,
             forecast |-> forecast_points(l.spi_forecast)]
      [] endpoint = "multi_by_coords" ->
            [items |-> multi_items(l.result)]
      [] endpoint = "forecast_summary_by_coords" ->
            [forecast_days |-> request.forecast_days,
             latest_spi |-> l.latest_spi, latest_category |-> l.category,
             sarima |-> sarima_block(l.spi_30)]

\* Where each handler starts, and where it goes after the historical fetch
\* and after the classification.
first_step(endpoint) ==
    IF endpoint \in {"forecast_by_coords", "multi_by_coords"} THEN "validate"
    ELSE "fetch_hist"

after_fetch_hist(endpoint) ==
    CASE endpoint = "forecast_by_coords" -> "fetch_forecast"
      [] endpoint = "multi_by_coords" -> "loop"
      [] OTHER -> "rolling"

after_classify(endpoint) ==
    IF endpoint = "forecast_by_coords" THEN "respond" ELSE "forecast_spi"

\* Variant that runs a step again when it raised.
on_raise_retry(at) == at

\* An exception raised at a position inside the try block ends the core
\* function and is taken by the handler's except clauses.
on_raise(at) == "except"

\* A step that returned, and a step that raised e.
Returned(step, next, new_locals) ==
    /\ pc' = next
    /\ locals' = new_locals
    /\ trace' = Append(trace, Step(step, "returned"))
    /\ UNCHANGED <<call, args, ret, FAKE_DB, uuid_issued>>

Raised(step, e) ==
    /\ pc' = on_raise(pc)
    /\ locals' = [locals EXCEPT !.raised = e]
    /\ trace' = Append(trace, Step(step, "raised"))
    /\ UNCHANGED <<call, args, ret, FAKE_DB, uuid_issued>>

\* The handler is entered.
Receive ==
    /\ pc = "idle"
    /\ call = NoCall
    /\ call' = args.endpoint
    /\ pc' = first_step(args.endpoint)
    /\ UNCHANGED <<args, ret, locals, trace, FAKE_DB, uuid_issued>>

\* spi.py lines 429-430 (forecast_days) and 510-514 (scales_months).
Validate ==
    /\ pc = "validate"
    /\ IF call = "forecast_by_coords"
       THEN IF args.forecast_days < MinForecastDays \/ args.forecast_days > MaxForecastDays
            THEN Raised("validate", ValueError("forecast_days_out_of_range"))
            ELSE Returned("validate", "fetch_hist", locals)
       ELSE IF args.scales = <<>>
            THEN Raised("validate", ValueError("empty_scales"))
            ELSE Returned("validate", "fetch_hist",
                          [locals EXCEPT !.unique_scales =
                              SortedSeqOf({args.scales[i] : i \in DOMAIN args.scales}),
                                         !.k = 1])

\* spi.py lines 385, 435, 519.
FetchHistory ==
    /\ pc = "fetch_hist"
    /\ LET fetched == fetch_daily_precipitation(args.meteostat)
       IN IF fetched.kind # "ok" THEN Raised("fetch_hist", fetched)
          ELSE Returned("fetch_hist", after_fetch_hist(call),
                        [locals EXCEPT !.prcp_series = fetched.series])

\* spi.py lines 438-443.
FetchForecast ==
    /\ pc = "fetch_forecast"
    /\ LET fetched == fetch_daily_precipitation_forecast(args.forecast_days, args.open_meteo)
       IN IF fetched.kind # "ok" THEN Raised("fetch_forecast", fetched)
          ELSE Returned("fetch_forecast", "rolling",
                        [locals EXCEPT !.prcp_forecast = fetched.series])

\* spi.py lines 388-389, and 446-465 for the forecast endpoint.
RollingSum ==
    /\ pc = "rolling"
    /\ IF call = "forecast_by_coords"
       THEN LET sums == forecast_rolling_sums(args.scale_months, args.end_date,
                                              args.forecast_days, locals.prcp_series,
                                              locals.prcp_forecast)
            IN IF sums.kind # "ok" THEN Raised("rolling", sums)
               ELSE Returned("rolling", "transform",
                             [locals EXCEPT !.prcp_series = sums.prcp_combined,
                                            !.rolling = sums.passed])
       ELSE Returned("rolling", "transform",
                     [locals EXCEPT !.rolling =
                         rolling_sum(locals.prcp_series, args.scale_months * DaysPerMonth)])

\* spi.py lines 392 and 465: _compute_spi_series_from_sums.
Transform ==
    /\ pc = "transform"
    /\ LET spi == compute_spi_series_from_sums(locals.rolling)
       IN IF spi.kind # "ok" THEN Raised("transform", spi)
          ELSE Returned("transform", "classify",
                        [locals EXCEPT !.spi_series = spi.spi_series,
                                       !.latest_spi = spi.latest_spi])

\* spi.py lines 394-396, and 468-479 for the forecast endpoint.
Classify ==
    /\ pc = "classify"
    /\ LET spi_hist == dropna(upto_date(locals.spi_series, args.end_date))
           spi_forecast == head(dropna(after_date(locals.spi_series, args.end_date)),
                                args.forecast_days)
       IN IF call = "forecast_by_coords" /\ spi_hist = <<>>
          THEN Raised("classify", ValueError("no_historical_spi"))
          ELSE Returned("classify", after_classify(call),
                        [locals EXCEPT !.category = categorize_spi(locals.latest_spi),
                                       !.spi_forecast =
                                           IF call = "forecast_by_coords"
                                           THEN spi_forecast ELSE <<>>])

\* spi.py lines 523-538: one pass of the loop over the scales, or its end.
LoopScale ==
    /\ pc = "loop"
    /\ IF locals.k > Len(locals.unique_scales)
       THEN Returned("return", "respond", locals)
       ELSE LET scale == locals.unique_scales[locals.k]
                one == scale_entry(scale, locals.prcp_series)
            IN IF one.kind # "ok" THEN Raised("scale", one)
               ELSE Returned("scale", "loop",
                             [locals EXCEPT !.result = locals.result @@ (scale :> one.entry),
                                            !.k = locals.k + 1])

\* api/v1/spi.py lines 142 and 304: forecast_spi, after the try block.  A
\* SARIMAX failure is swallowed inside forecast_spi; an exception of the
\* regularization leaves the handler.
ForecastSpi ==
    /\ pc = "forecast_spi"
    /\ LET spi_30 == forecast_spi(locals.spi_series,
                                  forecast_horizon(args.forecast_days), args.sarimax)
       IN IF spi_30.kind # "ok"
          THEN /\ pc' = "done"
               /\ ret' = Escaped(spi_30)
               /\ trace' = Append(trace, Step("forecast_spi", "raised"))
               /\ UNCHANGED <<call, args, locals, FAKE_DB, uuid_issued>>
          ELSE /\ pc' = "respond"
               /\ locals' = [locals EXCEPT !.spi_30 =
                                [nan |-> spi_30.nan, num |-> spi_30.num, den |-> spi_30.den]]
               /\ trace' = Append(trace,
                                  Step("forecast_spi",
                                       IF spi_30.path = "fallback" THEN "swallowed"
                                       ELSE "returned"))
               /\ UNCHANGED <<call, args, ret, FAKE_DB, uuid_issued>>

\* The handler returns its response model.
Respond ==
    /\ pc = "respond"
    /\ pc' = "done"
    /\ ret' = Response(response_body(call, args, locals))
    /\ trace' = Append(trace, Step("respond", "returned"))
    /\ UNCHANGED <<call, args, locals, FAKE_DB, uuid_issued>>

\* One of the except clauses raises the HTTPException.
Except ==
    /\ pc = "except"
    /\ pc' = "done"
    /\ ret' = http_exception(call, locals.raised)
    /\ trace' = Append(trace, Step("except", "returned"))
    /\ UNCHANGED <<call, args, locals, FAKE_DB, uuid_issued>>

-----------------------------------------------------------------------------
(* Specification of the four /spi endpoints: a request and the answers of  *)
(* the providers are drawn, then the handler runs to its response.         *)

\* Histories are 59 or MaxHttpDays days long.
MaxHttpDays == 89

\* A history of the days 1..n: rain of bump mm every seventh day over a
\* base reading, whole or with the day gap_at missing.
HttpFrame(n, base, bump, gap_at) ==
    Frame(n, base, 7, bump, gap_at, 1, "absent", FALSE, FALSE)

\* What Meteostat may answer for the days 1..n: weekly rain, constant rain
\* or no rain at all, or one of its failures.
HttpMeteostat(n) ==
    {HttpFrame(n, rain[1], rain[2], gap_at) :
        rain \in {<<0, 10>>, <<2, 0>>, <<0, 0>>}, gap_at \in {0, 10}}
    \cup {[kind |-> k, rows |-> <<>>] : k \in {"raises", "empty", "no_prcp"}}

\* scales of /multi-by-coords (a list of any integers).
HttpScaleLists == {<<>>, <<1>>, <<2, 1>>, <<1, 2, 1>>, <<0, 1>>, <<1, 25>>}

\* forecast_days of /forecast-by-coords (Query ge=1, le=16) and of
\* /forecast-summary-by-coords (Query ge=1, le=60).
MaxSummaryDays == 60
ForecastEndpointDays == {MinForecastDays, 2, MaxForecastDays}
SummaryEndpointDays == {1, DefaultHorizon, MaxSummaryDays}

Request(endpoint, scale_months, scales, forecast_days, end_date, meteostat, open_meteo, sarimax) ==
    [endpoint |-> endpoint, scale_months |-> scale_months, scales |-> scales,
     forecast_days |-> forecast_days, end_date |-> end_date,
     meteostat |-> meteostat, open_meteo |-> open_meteo, sarimax |-> sarimax]

\* The requests whose history ends on end_date and is answered by meteostat.
\* A parameter an endpoint does not have is left at one fixed value.
HttpRequests(end_date, meteostat) ==
    LET no_forecast == OpenMeteoOk(end_date, 1, 0, 0, FALSE)
        no_sarimax == [kind |-> "fails", level |-> 0, drift |-> 0]
    IN {Request("by_coords", scale, <<>>, 0, end_date, meteostat, no_forecast, sarimax) :
            scale \in 1..MaxScale, sarimax \in SarimaxBehaviours}
       \cup {Request("forecast_summary_by_coords", scale, <<>>, days, end_date,
                     meteostat, no_forecast, sarimax) :
                scale \in 1..MaxScale, days \in SummaryEndpointDays,
                sarimax \in SarimaxBehaviours}
       \cup UNION {{Request("forecast_by_coords", scale, <<>>, days, end_date,
                            meteostat, open_meteo, no_sarimax) :
                       scale \in 1..MaxScale,
                       open_meteo \in ForecastPointAnswers(days, end_date + offset)} :
                   days \in ForecastEndpointDays, offset \in {0 - MaxForecastDays, 0}}
       \cup {Request("multi_by_coords", 0, scales, 0, end_date, meteostat,
                     no_forecast, no_sarimax) :
                scales \in HttpScaleLists}

InitHttp ==
    /\ call = NoCall
    /\ \E end_date \in {2 * DaysPerMonth - 1, MaxHttpDays} :
         \E meteostat \in HttpMeteostat(end_date) :
            args \in HttpRequests(end_date, meteostat)
    /\ ret = NoRet
    /\ Quiescent

NextHttp ==
    \/ Receive
    \/ Validate
    \/ FetchHistory
    \/ FetchForecast
    \/ RollingSum
    \/ Transform
    \/ Classify
    \/ LoopScale
    \/ ForecastSpi
    \/ Respond
    \/ Except

SpecHttp == InitHttp /\ [][NextHttp]_vars

-----------------------------------------------------------------------------
(* Claims about the /spi endpoints *)

HandlerDone == pc = "done" /\ call # NoCall

\* What the core function of the endpoint returns or raises for the
\* arguments of the request, as one call.
CoreResult ==
    CASE call = "forecast_by_coords" ->
            compute_spi_forecast_for_point(args.scale_months, args.end_date,
                                           args.forecast_days, args.meteostat,
                                           args.open_meteo)
      [] call = "multi_by_coords" ->
            compute_multi_scale_spi_for_point(args.scales, args.meteostat)
      [] OTHER -> compute_spi_for_point(args.scale_months, args.meteostat)

\* C11: HTTP error mapping.  When a handler is done, no exception has left
\* it unmapped; a MeteostatError or ForecastError was answered with 502, a
\* ValueError with 400, any other exception with 500 and the fixed generic
\* detail that carries no text of the exception; and nothing raised was
\* answered with 200.
C11_ErrorMapping ==
    HandlerDone =>
        /\ ret.escaped.kind = "none"
        /\ locals.raised.kind \in {"MeteostatError", "ForecastError"} => ret.status = 502
        /\ locals.raised.kind = "ValueError" => ret.status = 400
        /\ locals.raised.kind \notin {"none", "MeteostatError", "ForecastError", "ValueError"} =>
              /\ ret.status = 500
              /\ ret.detail = [label |-> "internal_server_error", text |-> ""]
        /\ locals.raised.kind = "none" <=> ret.status = 200

\* C11 witness: an AttributeError raised while reading a malformed
\* Open-Meteo body was answered with the generic 500.
C11_Witness ==
    /\ HandlerDone
    /\ call = "forecast_by_coords"
    /\ locals.raised.kind = "AttributeError"
    /\ ret.status = 500

\* The calendar days of a series follow one another without a hole.
IsGapFree(series) ==
    \A i \in 1..(Len(series) - 1) : series[i + 1].date = series[i].date + 1

IsConstant(series) ==
    \A i \in DOMAIN series : series[i].ok /\ series[i].v = series[1].v

RollingSumIsCorrect(source, window, rolling) ==
    Len(source) >= window =>
        /\ Len(rolling) = Len(source)
        /\ \A i \in DOMAIN source : rolling[i].date = source[i].date
        /\ \A i \in 1..(window - 1) : ~rolling[i].ok
        /\ \A i \in DOMAIN rolling : rolling[i].ok => rolling[i].v >= 0
        /\ (IsGapFree(source) /\ IsConstant(source)) =>
              \A i \in DOMAIN rolling : rolling[i].ok => rolling[i].v = source[1].v * window

\* C15: rolling-sum correctness.  For a fetched daily series of N >= W
\* entries, W = scale_months x 30, the rolling sums have the index of the
\* source, their first W-1 entries are undefined, every defined entry is
\* >= 0, and over a gap-free source of constant value v every defined entry
\* is v x W.  Checked of the sums compute_spi_for_point has just taken and
\* of those each pass of the multi-scale loop takes.
C15_RollingSumCorrect ==
    /\ (pc = "transform" /\ call \in {"by_coords", "forecast_summary_by_coords"}) =>
          RollingSumIsCorrect(locals.prcp_series, args.scale_months * DaysPerMonth,
                              locals.rolling)
    /\ (pc = "loop" /\ locals.k <= Len(locals.unique_scales)) =>
          LET window == locals.unique_scales[locals.k] * DaysPerMonth
          IN window >= DaysPerMonth =>
                RollingSumIsCorrect(locals.prcp_series, window,
                                    rolling_sum(locals.prcp_series, window))

\* C15 witness: the rolling sums of a gap-free history of 2 mm a day were
\* taken and the last of them is 2 x W.
C15_Witness ==
    /\ pc = "transform"
    /\ call = "by_coords"
    /\ Len(locals.prcp_series) >= args.scale_months * DaysPerMonth
    /\ IsGapFree(locals.prcp_series)
    /\ IsConstant(locals.prcp_series)
    /\ locals.prcp_series[1].v = 2
    /\ locals.rolling[Len(locals.rolling)] =
          Row(args.end_date, 2 * args.scale_months * DaysPerMonth)

StepCount(name) == Cardinality({i \in DOMAIN trace : trace[i].step = name})

\* C16: no retry and immediate surfacing.  Within a request each external
\* fetch runs at most once, and exactly once when the multi-scale loop
\* runs; a step that raised is the last step of the core, followed only by
\* the handler's except clause, whose response is the mapped error; the
\* only failure swallowed is that of the forecast model; a 200 is answered
\* only when the core function as a whole succeeds, and otherwise the
\* error it raises is the one mapped.
C16_NoRetryImmediateSurfacing ==
    /\ StepCount("fetch_hist") <= 1
    /\ StepCount("fetch_forecast") <= 1
    /\ (call = "multi_by_coords" /\ StepCount("scale") > 0) => StepCount("fetch_hist") = 1
    /\ \A i \in DOMAIN trace :
          /\ trace[i].outcome = "swallowed" => trace[i].step = "forecast_spi"
          /\ trace[i].outcome = "raised" =>
                \/ i = Len(trace) /\ pc = "except"
                \/ /\ i = Len(trace) - 1
                   /\ trace[Len(trace)].step = "except"
                   /\ pc = "done"
                   /\ ret = http_exception(call, locals.raised)
    /\ HandlerDone =>
          LET core == CoreResult
          IN IF core.kind = "ok" THEN ret.status = 200
             ELSE ret = http_exception(call, core)

\* C16 witness: the second pass of the multi-scale loop raised after one
\* fetch and one successful pass, and the request was answered with 400.
C16_Witness ==
    /\ HandlerDone
    /\ call = "multi_by_coords"
    /\ StepCount("fetch_hist") = 1
    /\ StepCount("scale") = 2
    /\ \E i \in DOMAIN trace : trace[i] = Step("scale", "raised")
    /\ ret.status = 400

\* C18: forecast_days of /forecast-summary-by-coords has no influence on
\* the forecast.  The SARIMA value, its category and its recommendations in
\* a 200 response are those of forecast_spi at its default horizon of 30
\* days on the SPI series of the request's other parameters, whatever
\* forecast_days is; forecast_days is echoed back.
C18_SummaryIgnoresForecastDays ==
    (HandlerDone /\ call = "forecast_summary_by_coords" /\ ret.status = 200) =>
        LET core == compute_spi_for_point(args.scale_months, args.meteostat)
            at_30 == forecast_spi(core.spi_series, DefaultHorizon, args.sarimax)
            spi_30 == [nan |-> at_30.nan, num |-> at_30.num, den |-> at_30.den]
        IN /\ ret.body.sarima.spi_30 = spi_30
           /\ ret.body.sarima.category = categorize_spi_forecast(as_hundredths(spi_30))
           /\ ret.body.sarima.recommendations =
                 generate_forecast_recommendations(as_hundredths(spi_30))
           /\ ret.body.forecast_days = args.forecast_days

\* C18 witness: a summary was answered for forecast_days = 60 with a SARIMA
\* model whose forecast changes from step to step.
C18_Witness ==
    /\ HandlerDone
    /\ call = "forecast_summary_by_coords"
    /\ ret.status = 200
    /\ args.forecast_days = MaxSummaryDays
    /\ args.sarimax.kind = "fits"
    /\ args.sarimax.drift # 0

-----------------------------------------------------------------------------
(* api/v1/fields.py: the field registry *)

\* Bounds: the ids uuid4 can issue and the calls of one behaviour.
MaxFields == 2
MaxCalls == 4

\* The values str(uuid.uuid4()) may take, as numbers 1..MaxFields; 0 is a
\* field_id of a request that is no id the registry ever issued.
Uuids == 1..MaxFields
RequestIds == 0..MaxFields

\* FieldBase: the body of POST /fields, after validation by pydantic.
FieldBase(name, area_ha, has_irrigation, soil_type) ==
    [name |-> name, lat |-> 55, lon |-> 37, area_ha |-> area_ha,
     has_irrigation |-> has_irrigation, soil_type |-> soil_type]

FieldBases ==
    {FieldBase("north", [given |-> FALSE, v |-> 0], FALSE, "medium"),
     FieldBase("south", [given |-> TRUE, v |-> 12], TRUE, "light")}

\* Field(id=field_id, **field.model_dump())
Field(field_id, field) ==
    [id |-> field_id, name |-> field.name, lat |-> field.lat, lon |-> field.lon,
     area_ha |-> field.area_ha, has_irrigation |-> field.has_irrigation,
     soil_type |-> field.soil_type]

NoField == Field(0, FieldBase("", [given |-> FALSE, v |-> 0], FALSE, ""))

\* uuid.uuid4(): a value that was not issued before.
uuid4(issued) == Uuids \ issued

\* _FAKE_DB is a dict; the model keeps its values in insertion order.
dict_keys(db) == {db[k].id : k \in DOMAIN db}

dict_get(db, field_id) ==
    LET at == {k \in DOMAIN db : db[k].id = field_id}
    IN IF at = {} THEN NoField ELSE db[CHOOSE k \in at : TRUE]

\* db[field_id] = stored: in place when the key exists, else at the end.
dict_set(db, field_id, stored) ==
    IF field_id \in dict_keys(db)
    THEN [k \in DOMAIN db |-> IF db[k].id = field_id THEN stored ELSE db[k]]
    ELSE Append(db, stored)

\* Variant of pop that leaves the entry where it is.
dict_pop_none(db, field_id) == db

\* db.pop(field_id)
IsNotKey(row, field_id) == row.id # field_id
dict_pop(db, field_id) ==
    LET Keep(row) == IsNotKey(row, field_id)
    IN SelectSeq(db, Keep)

\* One served call of the registry, kept for the claims.
Served(op, field_id, stored, status) ==
    [op |-> op, id |-> field_id, stored |-> stored, status |-> status]

Serve(op, request, response, field_id, stored) ==
    /\ Len(trace) < MaxCalls
    /\ call' = op
    /\ args' = request
    /\ ret' = response
    /\ trace' = Append(trace, Served(op, field_id, stored, response.status))
    /\ UNCHANGED <<pc, locals>>

FieldNotFound == HTTPException(404, "field_not_found", "")

\* GET /fields
list_fields ==
    /\ Serve("list_fields", [field_id |-> 0, field |-> NoField],
             Response(FAKE_DB), 0, NoField)
    /\ UNCHANGED <<FAKE_DB, uuid_issued>>

\* POST /fields
create_field ==
    \E field \in FieldBases :
      \E field_id \in uuid4(uuid_issued) :
        LET stored == Field(field_id, field)
        IN /\ Serve("create_field", [field_id |-> 0, field |-> Field(0, field)],
                    Response(stored), field_id, stored)
           /\ FAKE_DB' = dict_set(FAKE_DB, field_id, stored)
           /\ uuid_issued' = uuid_issued \cup {field_id}

\* GET /fields/{field_id}
get_field ==
    \E field_id \in RequestIds :
        LET field == dict_get(FAKE_DB, field_id)
        IN /\ Serve("get_field", [field_id |-> field_id, field |-> NoField],
                    IF field = NoField THEN FieldNotFound ELSE Response(field),
                    field_id, NoField)
           /\ UNCHANGED <<FAKE_DB, uuid_issued>>

\* DELETE /fields/{field_id}
delete_field ==
    \E field_id \in RequestIds :
        IF field_id \notin dict_keys(FAKE_DB)
        THEN /\ Serve("delete_field", [field_id |-> field_id, field |-> NoField],
                      FieldNotFound, field_id, NoField)
             /\ UNCHANGED <<FAKE_DB, uuid_issued>>
        ELSE /\ Serve("delete_field", [field_id |-> field_id, field |-> NoField],
                      Response([status |-> "deleted", id |-> field_id]),
                      field_id, NoField)
             /\ FAKE_DB' = dict_pop(FAKE_DB, field_id)
             /\ UNCHANGED uuid_issued

InitFields ==
    /\ call = NoCall
    /\ args = [field_id |-> 0, field |-> NoField]
    /\ ret = NoRet
    /\ Quiescent

NextFields ==
    \/ list_fields
    \/ create_field
    \/ get_field
    \/ delete_field

SpecFields == InitFields /\ [][NextFields]_vars

\* The fields the calls served so far created and did not delete since.
CreatedNotDeleted ==
    {trace[i].stored : i \in
        {c \in DOMAIN trace :
            /\ trace[c].op = "create_field"
            /\ \A d \in (c + 1)..Len(trace) :
                  ~(trace[d].op = "delete_field" /\ trace[d].id = trace[c].id)}}

StoreIsCreatedNotDeleted ==
    /\ {FAKE_DB[k] : k \in DOMAIN FAKE_DB} = CreatedNotDeleted
    /\ \A k1, k2 \in DOMAIN FAKE_DB : FAKE_DB[k1].id = FAKE_DB[k2].id => k1 = k2

\* What one call may do to the store and must answer.
RegistryStep ==
    /\ call' \in {"get_field", "list_fields"} => FAKE_DB' = FAKE_DB
    /\ call' = "get_field" =>
          IF args'.field_id \in dict_keys(FAKE_DB)
          THEN /\ ret'.status = 200
               /\ ret'.body.id = args'.field_id
               /\ \E k \in DOMAIN FAKE_DB : FAKE_DB[k] = ret'.body
          ELSE ret'.status = 404
    /\ (call' = "delete_field" /\ args'.field_id \notin dict_keys(FAKE_DB)) =>
          /\ ret'.status = 404
          /\ FAKE_DB' = FAKE_DB
    /\ call' = "create_field" =>
          /\ ret'.status = 200
          /\ ret'.body.id \notin dict_keys(FAKE_DB)
          /\ ret'.body = Field(ret'.body.id, args'.field)
          /\ FAKE_DB' = Append(FAKE_DB, ret'.body)

\* C19: field registry consistency.  After any sequence of calls the store
\* holds exactly the fields created and not deleted since, one per id;
\* get_field answers with the stored field of that id iff the id is in the
\* store and with 404 otherwise; delete_field of an id not in the store
\* answers 404 and leaves the store as it is; get_field and list_fields
\* leave the store as it is; create_field adds one entry under an id not
\* in the store and alters no other entry.
C19_RegistryConsistent == [](StoreIsCreatedNotDeleted) /\ [][RegistryStep]_vars

\* C19 witness: two fields of the same body were created, the first was
\* deleted, and get_field of the second has just answered with it.
C19_Witness ==
    /\ call = "get_field"
    /\ ret.status = 200
    /\ Len(trace) = 4
    /\ trace[1].op = "create_field"
    /\ trace[2].op = "create_field"
    /\ trace[1].stored.name = trace[2].stored.name
    /\ trace[3].op = "delete_field"
    /\ trace[3].id = trace[1].id
    /\ FAKE_DB = <<trace[2].stored>>
    /\ ret.body = trace[2].stored

=============================================================================
